---------------------------- MODULE Spec2Model ----------------------------
(***************************************************************************)
(* Model of the MMC5603 magnetometer driver (src/adafruit_mmc56x3.py):     *)
(* the driver's calls (construction, reset, temperature, magnetic) as a    *)
(* step machine over a simulated device register file and a shared I2C     *)
(* bus, and the two unit conversions computed in binary floating point as  *)
(* CPython computes them (IEEE-754 binary64, round to nearest, ties to     *)
(* even).                                                                  *)
(***************************************************************************)
EXTENDS Integers, Sequences, FiniteSets, TLC

(***************************************************************************)
(* Register map (src/adafruit_mmc56x3.py lines 39-48).                     *)
(***************************************************************************)
MMC5603_CHIP_ID == 16
MMC5603_OUT_X_L == 0
MMC5603_OUT_TEMP == 9
MMC5603_PRODUCT_ID == 57
MMC5603_STATUS_REG == 24
MMC5603_CTRL_REG0 == 27
MMC5603_CTRL_REG1 == 28
MMC5603_CTRL_REG2 == 29
\* the values written to control register 0 by temperature and by magnetic
TriggerTemperature == 2
TriggerMagnetic == 33

Byte == 0..255

(***************************************************************************)
(* Arbitrary-size naturals as little-endian sequences of bits without high *)
(* zero bits (<<>> is 0).  TLC's integers are 32 bits wide; a product of   *)
(* a 53-bit significand and a 20-bit integer is not.  The recursions are   *)
(* functions, whose arguments TLC evaluates once.                          *)
(***************************************************************************)
Bits == Seq({0, 1})

BitsOfNat[n \in Nat] == IF n = 0 THEN <<>> ELSE <<n % 2>> \o BitsOfNat[n \div 2]

TrimBits[b \in Bits] ==
    IF b = <<>> THEN <<>>
    ELSE IF b[Len(b)] = 0 THEN TrimBits[SubSeq(b, 1, Len(b) - 1)]
    ELSE b

ShiftLeft[b \in Bits, s \in Nat] == IF b = <<>> THEN <<>> ELSE [i \in 1..s |-> 0] \o b

\* b * k + carry, for a small k
MulSmall[b \in Bits, k \in Nat, carry \in Nat] ==
    IF b = <<>> THEN BitsOfNat[carry]
    ELSE <<(b[1] * k + carry) % 2>> \o MulSmall[Tail(b), k, (b[1] * k + carry) \div 2]

\* a + b + carry
AddBits[a \in Bits, b \in Bits, carry \in {0, 1}] ==
    IF a = <<>> /\ b = <<>> THEN BitsOfNat[carry]
    ELSE LET x == IF a = <<>> THEN 0 ELSE a[1]
             y == IF b = <<>> THEN 0 ELSE b[1]
         IN  <<(x + y + carry) % 2>>
                 \o AddBits[IF a = <<>> THEN <<>> ELSE Tail(a),
                            IF b = <<>> THEN <<>> ELSE Tail(b),
                            (x + y + carry) \div 2]

\* -1, 0, 1 as a < b, a = b, a > b
CmpBits[a \in Bits, b \in Bits] ==
    IF Len(a) # Len(b) THEN (IF Len(a) < Len(b) THEN -1 ELSE 1)
    ELSE IF a = <<>> THEN 0
    ELSE IF a[Len(a)] # b[Len(b)] THEN (IF a[Len(a)] < b[Len(b)] THEN -1 ELSE 1)
    ELSE CmpBits[TrimBits[SubSeq(a, 1, Len(a) - 1)],
                 TrimBits[SubSeq(b, 1, Len(b) - 1)]]

\* a - b - borrow, for a >= b + borrow; the result is not trimmed
SubRaw[a \in Bits, b \in Bits, borrow \in {0, 1}] ==
    IF a = <<>> THEN <<>>
    ELSE LET y == IF b = <<>> THEN 0 ELSE b[1]
         IN  <<(a[1] - y - borrow) % 2>>
                 \o SubRaw[Tail(a),
                           IF b = <<>> THEN <<>> ELSE Tail(b),
                           IF a[1] - y - borrow < 0 THEN 1 ELSE 0]

SubBits[a \in Bits, b \in Bits] == TrimBits[SubRaw[a, b, 0]]

\* the hexadecimal digits d (most significant first) as a natural
BitsOfHex[d \in Seq(0..15)] ==
    IF d = <<>> THEN <<>>
    ELSE TrimBits[AddBits[BitsOfNat[d[Len(d)]],
                          ShiftLeft[BitsOfHex[SubSeq(d, 1, Len(d) - 1)], 4], 0]]

(***************************************************************************)
(* Binary64 values.  Every float the driver computes is a multiple of      *)
(* 2^-60 below 2^13, so a float is kept as a sign and a magnitude counted  *)
(* in units of 2^-60.                                                      *)
(***************************************************************************)
MantissaBits == 53
FracBits == 60

\* round to nearest, ties to even, to MantissaBits significant bits
FloatRound[b \in Bits] ==
    IF Len(b) <= MantissaBits THEN b
    ELSE LET drop == Len(b) - MantissaBits
             kept == SubSeq(b, drop + 1, Len(b))
             guard == b[drop]
             sticky == \E i \in 1..(drop - 1) : b[i] = 1
             up == guard = 1 /\ (sticky \/ kept[1] = 1)
         IN  ShiftLeft[IF up THEN AddBits[kept, <<>>, 1] ELSE kept, drop]

Float == [neg : BOOLEAN, mag : Bits]
FloatZero == [neg |-> FALSE, mag |-> <<>>]
Abs(x) == IF x < 0 THEN -x ELSE x

\* float(x) for an integer below 2^53 in magnitude: exact
FloatOfInt[x \in Int] == [neg |-> x < 0, mag |-> ShiftLeft[BitsOfNat[Abs(x)], FracBits]]

\* the significand of the binary64 nearest to 0.8 and to 0.00625:
\* 0.8 = 0x1999999999999A * 2^-53, 0.00625 = 0x1999999999999A * 2^-60
Significand == BitsOfHex[<<1, 9, 9, 9, 9, 9, 9, 9, 9, 9, 9, 9, 9, 10>>]
Float_0_8 == [neg |-> FALSE, mag |-> ShiftLeft[Significand, FracBits - 53]]
Float_0_00625 == [neg |-> FALSE, mag |-> Significand]

\* x * c for an integer x below 2^20 in magnitude and a float c
FloatMulInt[x \in Int, c \in Float] ==
    IF x = 0 THEN FloatZero
    ELSE [neg |-> (x < 0) # c.neg, mag |-> FloatRound[MulSmall[c.mag, Abs(x), 0]]]

\* a - b for floats a, b
FloatSub[a \in Float, b \in Float] ==
    IF a.neg # b.neg
    THEN [neg |-> a.neg, mag |-> FloatRound[AddBits[a.mag, b.mag, 0]]]
    ELSE CASE CmpBits[a.mag, b.mag] = 0 -> FloatZero
           [] CmpBits[a.mag, b.mag] = 1 ->
                [neg |-> a.neg, mag |-> FloatRound[SubBits[a.mag, b.mag]]]
           [] OTHER ->
                [neg |-> ~a.neg, mag |-> FloatRound[SubBits[b.mag, a.mag]]]

(***************************************************************************)
(* The two conversions.                                                    *)
(***************************************************************************)
\* the offset taken before the scaling: (raw - 75) * 0.8
TemperatureConvert_OffsetFirst(raw) == FloatMulInt[raw - 75, Float_0_8]

\* temperature, lines 115-118: t = raw; t *= 0.8; t -= 75
TemperatureConvert(raw) == FloatSub[FloatMulInt[raw, Float_0_8], FloatOfInt[75]]

\* one axis, lines 133-139 and 141-143: (hi << 12 | mid << 4 | lo >> 4), minus 1 << 19,
\* times 0.00625.  The three fields are OR-ed, as the code ORs them.
BitOr[a \in Nat, b \in Nat] ==
    IF a = 0 /\ b = 0 THEN 0
    ELSE (IF a % 2 = 1 \/ b % 2 = 1 THEN 1 ELSE 0) + 2 * BitOr[a \div 2, b \div 2]

\* the low nibble of the third byte taken instead of the high one
AxisPacked_LowNibble(hi, mid, lo) == BitOr[BitOr[hi * 4096, mid * 16], lo % 16]

AxisPacked(hi, mid, lo) == BitOr[BitOr[hi * 4096, mid * 16], lo \div 16]

\* the offset 1 << 19 not subtracted
AxisCentered_Unsigned(hi, mid, lo) == AxisPacked(hi, mid, lo)

AxisCentered(hi, mid, lo) == AxisPacked(hi, mid, lo) - 524288

AxisConvert(hi, mid, lo) == FloatMulInt[AxisCentered(hi, mid, lo), Float_0_00625]

\* magnetic, lines 133-144, on the 9 bytes of the buffer (1-based here)
MagneticDecode(buf) ==
    << AxisConvert(buf[1], buf[2], buf[7]),
       AxisConvert(buf[3], buf[4], buf[8]),
       AxisConvert(buf[5], buf[6], buf[9]) >>

(***************************************************************************)
(* Bounds of the model.                                                    *)
(***************************************************************************)
\* the status polls of one call are counted up to MaxPolls, and the log keeps
\* the first MaxPolls - 1 of them and the latest; the loop itself goes on
MaxPolls == 3
\* time.sleep(d) returns after d ms or up to MaxOversleep ms later
MaxOversleep == 1
\* the milliseconds slept in one call are counted up to MaxClock
MaxClock == 22

Min(a, b) == IF a < b THEN a ELSE b
Bit(v, n) == (v \div (2 ^ n)) % 2
SetBit(v, n) == IF Bit(v, n) = 1 THEN v ELSE v + 2 ^ n
ClearBit(v, n) == IF Bit(v, n) = 1 THEN v - 2 ^ n ELSE v

(***************************************************************************)
(* The simulated device: the registers the driver touches.                 *)
(***************************************************************************)
ZeroBlock == <<0, 0, 0, 0, 0, 0, 0, 0, 0>>
\* every axis at mid-scale; X at mid-scale + 160; nine different bytes
OutSamples == { <<128, 0, 128, 0, 128, 0, 0, 0, 0>>,
                <<128, 10, 128, 0, 128, 0, 0, 0, 0>>,
                <<18, 52, 86, 120, 154, 188, 222, 240, 31>> }
TempSamples == {0, 94}

\* the byte at register address a
DevRead(d, a) ==
    CASE a = MMC5603_PRODUCT_ID -> d.id
      [] a = MMC5603_STATUS_REG -> d.status
      [] a = MMC5603_CTRL_REG0 -> d.ctrl0
      [] a = MMC5603_OUT_TEMP -> d.temp
      [] a \in 0..8 -> d.out[a + 1]
      [] OTHER -> 0

\* n bytes from register address a on, the address incrementing
DevReadBlock(d, a, n) == [i \in 1..n |-> DevRead(d, a + i - 1)]

\* a write of v to register a.  Control register 0: TM_M (bit 0) and TM_T
\* (bit 1) start a measurement and clear its done bit.  Control register 1:
\* bit 7 is the software reset.
DevWrite(d, a, v) ==
    CASE a = MMC5603_CTRL_REG0 ->
           [d EXCEPT !.ctrl0 = v,
                     !.status = LET s1 == IF Bit(v, 0) = 1 THEN ClearBit(@, 6) ELSE @
                                IN  IF Bit(v, 1) = 1 THEN ClearBit(s1, 7) ELSE s1]
      [] a = MMC5603_CTRL_REG1 ->
           IF Bit(v, 7) = 1 THEN [d EXCEPT !.ctrl0 = 0, !.status = 0] ELSE d
      [] OTHER -> d

VARIABLES
    dev,        \* the device's registers: id, status, ctrl0, out (9 bytes), temp
    pc,         \* the driver's position
    call,       \* the call in progress, or the last one: ctor, reset, temperature, magnetic
    buffer,     \* self._buffer: <<>> until allocated
    outcome,    \* how the last call ended: none (in progress), ok, or the error raised
    result,     \* what the last call returned: <<>>, <<t>> or <<x, y, z>>
    log,        \* the bus operations of the call, in order
    polls,      \* the status polls of the call, up to MaxPolls
    clock,      \* ms slept since the call's last bus operation, up to MaxClock
    busOwner,   \* who holds the I2C bus lock: none, driver, other
    other,      \* the other bus user: idle, locked, used
    intruded,   \* the other user operated between the address write and the read-back
    magHist     \* the magnetic reads of this call and of the call before it, when that
                \* was a magnetic call that returned: the device's output bytes, the result

vars == <<dev, pc, call, buffer, outcome, result, log, polls, clock, busOwner,
          other, intruded, magHist>>

driverVars == <<pc, call, buffer, outcome, result, log, polls, clock, magHist>>

Entry(op, reg, val, ok) == [op |-> op, reg |-> reg, val |-> val, ok |-> ok]

Init ==
    /\ dev \in [id : Byte, status : {0}, ctrl0 : {0}, out : {ZeroBlock}, temp : {0}]
    /\ pc = "new"
    /\ call = "none"
    /\ buffer = <<>>
    /\ outcome = "none"
    /\ result = <<>>
    /\ log = <<>>
    /\ polls = 0
    /\ clock = 0
    /\ busOwner = "none"
    /\ other = "idle"
    /\ intruded = FALSE
    /\ magHist = <<>>

(***************************************************************************)
(* Calls.  A call starts from the idle driver (construction: from the new  *)
(* one) and runs to its return or to the error it raises.                  *)
(***************************************************************************)
Begin(name, first) ==
    /\ call' = name
    /\ pc' = first
    /\ outcome' = "none"
    /\ result' = <<>>
    /\ log' = <<>>
    /\ polls' = 0
    /\ clock' = 0
    /\ intruded' = FALSE
    /\ magHist' = IF name = "magnetic" /\ call = "magnetic" /\ pc = "idle" /\ outcome = "ok"
                  THEN <<magHist[Len(magHist)]>>
                  ELSE <<>>
    /\ UNCHANGED <<dev, buffer, busOwner, other>>

\* where a raised error leaves the driver: construction that fails leaves no object
Raised == IF call = "ctor" THEN "dead" ELSE "idle"

\* a failed access tried again instead of raising
BusFails_Retry(op, reg) ==
    /\ log' = Append(log, Entry(op, reg, 0, FALSE))
    /\ UNCHANGED <<dev, pc, call, buffer, outcome, result, polls, clock, busOwner,
                   other, intruded, magHist>>

\* a register access that the transport fails: the error propagates
BusFails(op, reg) ==
    /\ log' = Append(log, Entry(op, reg, 0, FALSE))
    /\ outcome' = "BusTransportError"
    /\ pc' = Raised
    /\ UNCHANGED <<dev, call, buffer, result, polls, clock, busOwner, other,
                   intruded, magHist>>

\* self._ctrl0_reg = v, self._ctrl1_reg = v: one register write, made under the
\* bus lock by the register descriptor
RegisterWrite(reg, v, ok, next) ==
    /\ busOwner = "none"
    /\ \/ /\ ok
          /\ dev' = DevWrite(dev, reg, v)
          /\ log' = Append(log, Entry("write", reg, v, TRUE))
          /\ clock' = 0
          /\ pc' = next
          /\ UNCHANGED <<call, buffer, outcome, result, polls, busOwner, other,
                         intruded, magHist>>
       \/ /\ ~ok
          /\ BusFails("write", reg)

\* time.sleep(ms)
Sleep(ms, next) ==
    /\ \E extra \in 0..MaxOversleep : clock' = Min(clock + ms + extra, MaxClock)
    /\ pc' = next
    /\ UNCHANGED <<dev, call, buffer, outcome, result, log, polls, busOwner, other,
                   intruded, magHist>>

Return(value) ==
    /\ pc' = "idle"
    /\ outcome' = "ok"
    /\ result' = value

(***************************************************************************)
(* __init__, lines 87-94, and reset, lines 103-106.                        *)
(***************************************************************************)
Construct == pc = "new" /\ Begin("ctor", "ctor_chip_id")

\* the identity check left out
ChipIdMatches_Any(id) == TRUE

\* line 90: self._chip_id != _MMC5603_CHIP_ID raises
ChipIdMatches(id) == id = MMC5603_CHIP_ID

Ctor_ReadChipId ==
    /\ pc = "ctor_chip_id"
    /\ busOwner = "none"
    /\ \E ok \in BOOLEAN :
         IF ok
         THEN /\ log' = Append(log, Entry("read", MMC5603_PRODUCT_ID,
                                          DevRead(dev, MMC5603_PRODUCT_ID), TRUE))
              /\ IF ~ChipIdMatches(DevRead(dev, MMC5603_PRODUCT_ID))
                 THEN pc' = "dead" /\ outcome' = "DeviceNotFoundError"
                 ELSE pc' = "reset_write" /\ outcome' = outcome
              /\ clock' = 0
              /\ UNCHANGED <<dev, call, buffer, result, polls, busOwner, other,
                             intruded, magHist>>
         ELSE BusFails("read", MMC5603_PRODUCT_ID)

CallReset == pc = "idle" /\ Begin("reset", "reset_write")

Reset_Write ==
    /\ pc = "reset_write"
    /\ \E ok \in BOOLEAN : RegisterWrite(MMC5603_CTRL_REG1, 128, ok, "reset_sleep")

\* a delay of 2 ms instead of 20
Reset_Sleep_Short ==
    /\ pc = "reset_sleep"
    /\ Sleep(2, IF call = "ctor" THEN "ctor_buffer" ELSE "reset_return")

Reset_Sleep ==
    /\ pc = "reset_sleep"
    /\ Sleep(20, IF call = "ctor" THEN "ctor_buffer" ELSE "reset_return")

Reset_Return ==
    /\ pc = "reset_return"
    /\ Return(<<>>)
    /\ UNCHANGED <<dev, call, buffer, log, polls, clock, busOwner, other, intruded,
                   magHist>>

\* a second reset made before the buffer is allocated
Ctor_Buffer_ResetAgain ==
    /\ pc = "ctor_buffer"
    /\ IF Len(log) < 3
       THEN /\ pc' = "reset_write"
            /\ UNCHANGED <<dev, call, buffer, outcome, result, log, polls, clock,
                           busOwner, other, intruded, magHist>>
       ELSE /\ buffer' = ZeroBlock
            /\ Return(<<>>)
            /\ UNCHANGED <<dev, call, log, polls, clock, busOwner, other, intruded,
                           magHist>>

Ctor_Buffer ==
    /\ pc = "ctor_buffer"
    /\ buffer' = ZeroBlock
    /\ Return(<<>>)
    /\ UNCHANGED <<dev, call, log, polls, clock, busOwner, other, intruded, magHist>>

(***************************************************************************)
(* The measurement calls.  Both trigger with a write of control register   *)
(* 0, poll their done bit of the status register, sleeping 5 ms after      *)
(* each poll that reads it clear, and then read the result.                *)
(***************************************************************************)
\* the temperature loop testing the magnetic done bit
meas_t_done_WrongBit(status) == Bit(status, 6) = 1

\* _meas_t_done = RWBit(_MMC5603_STATUS_REG, 7), _meas_m_done = RWBit(_MMC5603_STATUS_REG, 6)
meas_t_done(status) == Bit(status, 7) = 1
meas_m_done(status) == Bit(status, 6) = 1

\* the loop leaving only on the second poll that reads the bit set
Poll_Twice(done, ok, exit, again) ==
    /\ busOwner = "none"
    /\ \/ /\ ok
          /\ log' = LET e == Entry("read", MMC5603_STATUS_REG,
                                    DevRead(dev, MMC5603_STATUS_REG), TRUE)
                    IN  IF polls < MaxPolls THEN Append(log, e)
                        ELSE [log EXCEPT ![Len(log)] = e]
          /\ polls' = Min(polls + 1, MaxPolls)
          /\ pc' = IF done /\ polls >= 1 THEN exit ELSE again
          /\ clock' = 0
          /\ UNCHANGED <<dev, call, buffer, outcome, result, busOwner, other,
                         intruded, magHist>>
       \/ /\ ~ok
          /\ BusFails("read", MMC5603_STATUS_REG)

\* the loop given up after MaxPolls polls
Poll_Bounded(done, ok, exit, again) ==
    /\ busOwner = "none"
    /\ \/ /\ ok
          /\ polls < MaxPolls
          /\ log' = Append(log, Entry("read", MMC5603_STATUS_REG,
                                      DevRead(dev, MMC5603_STATUS_REG), TRUE))
          /\ polls' = polls + 1
          /\ pc' = IF done THEN exit ELSE again
          /\ outcome' = outcome
          /\ clock' = 0
          /\ UNCHANGED <<dev, call, buffer, result, busOwner, other,
                         intruded, magHist>>
       \/ /\ ok
          /\ polls >= MaxPolls
          /\ pc' = "idle"
          /\ outcome' = "MeasurementTimeout"
          /\ UNCHANGED <<dev, call, buffer, result, log, polls, clock, busOwner,
                         other, intruded, magHist>>
       \/ /\ ~ok
          /\ BusFails("read", MMC5603_STATUS_REG)

\* one evaluation of the loop condition: a read of the status register
Poll(done, ok, exit, again) ==
    /\ busOwner = "none"
    /\ \/ /\ ok
          /\ log' = LET e == Entry("read", MMC5603_STATUS_REG,
                                    DevRead(dev, MMC5603_STATUS_REG), TRUE)
                    IN  IF polls < MaxPolls THEN Append(log, e)
                        ELSE [log EXCEPT ![Len(log)] = e]
          /\ polls' = Min(polls + 1, MaxPolls)
          /\ pc' = IF done THEN exit ELSE again
          /\ clock' = 0
          /\ UNCHANGED <<dev, call, buffer, outcome, result, busOwner, other,
                         intruded, magHist>>
       \/ /\ ~ok
          /\ BusFails("read", MMC5603_STATUS_REG)

CallTemperature == pc = "idle" /\ Begin("temperature", "t_trigger")

Temperature_Trigger ==
    /\ pc = "t_trigger"
    /\ \E ok \in BOOLEAN : RegisterWrite(MMC5603_CTRL_REG0, TriggerTemperature, ok, "t_poll")

Temperature_Poll ==
    /\ pc = "t_poll"
    /\ \E ok \in BOOLEAN :
         Poll(meas_t_done(DevRead(dev, MMC5603_STATUS_REG)), ok, "t_read", "t_sleep")

Temperature_Sleep == pc = "t_sleep" /\ Sleep(5, "t_poll")

Temperature_Read ==
    /\ pc = "t_read"
    /\ busOwner = "none"
    /\ \E ok \in BOOLEAN :
         IF ok
         THEN /\ log' = Append(log, Entry("read", MMC5603_OUT_TEMP,
                                          DevRead(dev, MMC5603_OUT_TEMP), TRUE))
              /\ Return(<<TemperatureConvert(DevRead(dev, MMC5603_OUT_TEMP))>>)
              /\ clock' = 0
              /\ UNCHANGED <<dev, call, buffer, polls, busOwner, other,
                             intruded, magHist>>
         ELSE BusFails("read", MMC5603_OUT_TEMP)

CallMagnetic == pc = "idle" /\ Begin("magnetic", "m_trigger")

\* no new measurement started when the status already shows one done
Magnetic_Trigger_Cached ==
    /\ pc = "m_trigger"
    /\ IF meas_m_done(DevRead(dev, MMC5603_STATUS_REG))
       THEN /\ pc' = "m_poll"
            /\ UNCHANGED <<dev, call, buffer, outcome, result, log, polls, clock,
                           busOwner, other, intruded, magHist>>
       ELSE \E ok \in BOOLEAN :
                RegisterWrite(MMC5603_CTRL_REG0, TriggerMagnetic, ok, "m_poll")

Magnetic_Trigger ==
    /\ pc = "m_trigger"
    /\ \E ok \in BOOLEAN : RegisterWrite(MMC5603_CTRL_REG0, TriggerMagnetic, ok, "m_poll")

Magnetic_Poll ==
    /\ pc = "m_poll"
    /\ \E ok \in BOOLEAN :
         Poll(meas_m_done(DevRead(dev, MMC5603_STATUS_REG)), ok, "m_enter", "m_sleep")

Magnetic_Sleep == pc = "m_sleep" /\ Sleep(5, "m_poll")

\* the address byte not set again: the buffer keeps the last read's first byte
BufferWithAddress_Stale(buf) == buf

\* the address of the temperature register put in byte 0
BufferWithAddress_Temp(buf) == [buf EXCEPT ![1] = MMC5603_OUT_TEMP]

\* line 129: self._buffer[0] = _MMC5603_OUT_X_L
BufferWithAddress(buf) == [buf EXCEPT ![1] = MMC5603_OUT_X_L]

\* the last two entries of the history
Last2(h) == IF Len(h) <= 2 THEN h ELSE SubSeq(h, Len(h) - 1, Len(h))

\* the transaction started without taking the bus lock
Magnetic_Enter_NoLock ==
    /\ pc = "m_enter"
    /\ buffer' = BufferWithAddress(buffer)
    /\ pc' = "m_write"
    /\ UNCHANGED <<dev, call, outcome, result, log, polls, clock, busOwner, other,
                   intruded, magHist>>

\* line 130: with self.i2c_device as i2c: waits for the bus lock and takes it
Magnetic_Enter ==
    /\ pc = "m_enter"
    /\ busOwner = "none"
    /\ busOwner' = "driver"
    /\ buffer' = BufferWithAddress(buffer)
    /\ pc' = "m_write"
    /\ UNCHANGED <<dev, call, outcome, result, log, polls, clock, other, intruded,
                   magHist>>

\* a transport error inside the with block: the block's exit releases the
\* lock and the error propagates
TransactionFails(op, reg) ==
    /\ log' = Append(log, Entry(op, reg, 0, FALSE))
    /\ outcome' = "BusTransportError"
    /\ pc' = "idle"
    /\ busOwner' = "none"
    /\ UNCHANGED <<dev, call, buffer, result, polls, clock, other, intruded, magHist>>

\* lines 131-132, the write part: out_end=1, so buffer[0:1], the register address
Magnetic_WriteAddress ==
    /\ pc = "m_write"
    /\ \E ok \in BOOLEAN :
         IF ok
         THEN /\ log' = Append(log, Entry("xfer_write", buffer[1], 1, TRUE))
              /\ pc' = "m_readinto"
              /\ clock' = 0
              /\ UNCHANGED <<dev, call, buffer, outcome, result, polls, busOwner, other, intruded, magHist>>
         ELSE TransactionFails("xfer_write", buffer[1])

\* lines 131-132, the read part: len(buffer) bytes from the address written,
\* into buffer[0:]
Magnetic_ReadInto ==
    /\ pc = "m_readinto"
    /\ \E ok \in BOOLEAN :
         IF ok
         THEN LET addr == log[Len(log)].reg
              IN  /\ buffer' = DevReadBlock(dev, addr, Len(buffer))
                  /\ log' = Append(log, Entry("xfer_read", addr, Len(buffer), TRUE))
                  /\ magHist' = Last2(Append(magHist,
                                   [out |-> DevReadBlock(dev, MMC5603_OUT_X_L, 9),
                                    res |-> <<>>]))
                  /\ pc' = "m_exit"
                  /\ clock' = 0
                  /\ UNCHANGED <<dev, call, outcome, result, polls, busOwner,
                                 other, intruded>>
         ELSE TransactionFails("xfer_read", log[Len(log)].reg)

\* the with block's exit releases the lock; lines 133-144 decode and return
Magnetic_Exit ==
    /\ pc = "m_exit"
    /\ busOwner' = "none"
    /\ Return(MagneticDecode(buffer))
    /\ magHist' = [magHist EXCEPT ![Len(magHist)].res = MagneticDecode(buffer)]
    /\ UNCHANGED <<dev, call, buffer, log, polls, clock, other, intruded>>

(***************************************************************************)
(* The setters of data_rate, performance_mode and operation_mode, lines    *)
(* 151-193.  They look up Rate, PerformanceMode, OperationMode and sleep,  *)
(* names the module neither defines nor imports; the register descriptors  *)
(* they would assign to are inside a string (lines 80-85), so an           *)
(* assignment such as self._perf_mode = value would set a plain attribute  *)
(* and make no bus operation.                                              *)
(***************************************************************************)
\* the names bound in the module's namespace, lines 29-50
ModuleNames == {"time", "const", "i2c_device", "ROUnaryStruct", "UnaryStruct",
                "Struct", "RWBits", "RWBit", "__version__", "__repo__",
                "_MMC5603_I2CADDR_DEFAULT", "_MMC5603_CHIP_ID", "_MMC5603_OUT_X_L",
                "_MMC5603_OUT_TEMP", "_MMC5603_PRODUCT_ID", "_MMC5603_STATUS_REG",
                "_MMC5603_CTRL_REG0", "_MMC5603_CTRL_REG1", "_MMC5603_CTRL_REG2",
                "MMC5603"}

\* every name the setters use found
NameDefined_All(name) == TRUE

\* the lookup of a global name: a name not bound raises NameError
NameDefined(name) == name \in ModuleNames

\* the values a setter is called with: two that is_valid would accept, one not
ValidValues == {"A", "B"}
SetterValues == ValidValues \cup {"other"}

\* lines 177-180
PerformanceModeOutcome(value) ==
    IF ~NameDefined("PerformanceMode") THEN "NameError"
    ELSE IF value \notin ValidValues THEN "AttributeError"
    ELSE "ok"

\* lines 191-193
OperationModeOutcome(value) ==
    IF ~NameDefined("OperationMode") THEN "NameError"
    ELSE IF value \notin ValidValues THEN "AttributeError"
    ELSE "ok"

\* lines 154-161: a value that is one of the rates sets the performance mode
DataRateBeforeSleep(value) ==
    IF ~NameDefined("Rate") THEN "NameError"
    ELSE IF value \in ValidValues THEN PerformanceModeOutcome(value)
    ELSE "ok"

\* lines 154-165
DataRateOutcome(value) ==
    IF DataRateBeforeSleep(value) # "ok" THEN DataRateBeforeSleep(value)
    ELSE IF ~NameDefined("sleep") THEN "NameError"
    ELSE IF value \notin ValidValues THEN "AttributeError"
    ELSE "ok"

\* line 162, when it is reached and sleep is a name: 10 ms
DataRateSlept(value) ==
    IF DataRateBeforeSleep(value) = "ok" /\ NameDefined("sleep") THEN 10 ELSE 0

\* the setter's body, which makes no bus operation: it ends with an error or returns
SetterEnds(how, slept) ==
    /\ pc' = "idle"
    /\ outcome' = how
    /\ clock' = slept
    /\ UNCHANGED <<dev, call, buffer, result, log, polls, busOwner, other, intruded,
                   magHist>>

CallDataRate == pc = "idle" /\ Begin("data_rate", "dr_set")

DataRate_Set ==
    /\ pc = "dr_set"
    /\ \E value \in SetterValues : SetterEnds(DataRateOutcome(value), DataRateSlept(value))

CallPerformanceMode == pc = "idle" /\ Begin("performance_mode", "pm_set")

PerformanceMode_Set ==
    /\ pc = "pm_set"
    /\ \E value \in SetterValues : SetterEnds(PerformanceModeOutcome(value), 0)

CallOperationMode == pc = "idle" /\ Begin("operation_mode", "om_set")

OperationMode_Set ==
    /\ pc = "om_set"
    /\ \E value \in SetterValues : SetterEnds(OperationModeOutcome(value), 0)

(***************************************************************************)
(* The environment: the device finishing a measurement, and another user   *)
(* of the same bus.                                                        *)
(***************************************************************************)
DeviceMagneticDone ==
    /\ Bit(dev.ctrl0, 0) = 1
    /\ \E o \in OutSamples :
         dev' = [dev EXCEPT !.out = o, !.ctrl0 = ClearBit(@, 0), !.status = SetBit(@, 6)]
    /\ UNCHANGED <<driverVars, busOwner, other, intruded>>

DeviceTemperatureDone ==
    /\ Bit(dev.ctrl0, 1) = 1
    /\ \E t \in TempSamples :
         dev' = [dev EXCEPT !.temp = t, !.ctrl0 = ClearBit(@, 1), !.status = SetBit(@, 7)]
    /\ UNCHANGED <<driverVars, busOwner, other, intruded>>

OtherAcquire ==
    /\ other = "idle"
    /\ busOwner = "none"
    /\ busOwner' = "other"
    /\ other' = "locked"
    /\ UNCHANGED <<dev, driverVars, intruded>>

\* an operation of the other user, to another device of the bus
OtherOperate ==
    /\ other = "locked"
    /\ other' = "used"
    /\ intruded' = (intruded \/ pc = "m_readinto")
    /\ UNCHANGED <<dev, driverVars, busOwner>>

OtherRelease ==
    /\ other \in {"locked", "used"}
    /\ other' = "idle"
    /\ busOwner' = IF busOwner = "other" THEN "none" ELSE busOwner
    /\ UNCHANGED <<dev, driverVars, intruded>>

Driver ==
    \/ Construct
    \/ Ctor_ReadChipId
    \/ Ctor_Buffer
    \/ CallReset
    \/ Reset_Write
    \/ Reset_Sleep
    \/ Reset_Return
    \/ CallTemperature
    \/ Temperature_Trigger
    \/ Temperature_Poll
    \/ Temperature_Sleep
    \/ Temperature_Read
    \/ CallMagnetic
    \/ Magnetic_Trigger
    \/ Magnetic_Poll
    \/ Magnetic_Sleep
    \/ Magnetic_Enter
    \/ Magnetic_WriteAddress
    \/ Magnetic_ReadInto
    \/ Magnetic_Exit
    \/ CallDataRate
    \/ DataRate_Set
    \/ CallPerformanceMode
    \/ PerformanceMode_Set
    \/ CallOperationMode
    \/ OperationMode_Set

Environment ==
    \/ DeviceMagneticDone
    \/ DeviceTemperatureDone
    \/ OtherAcquire
    \/ OtherOperate
    \/ OtherRelease

Next == Driver \/ Environment

Spec == Init /\ [][Next]_vars

(***************************************************************************)
(* The same machine when things keep going: the device finishes every      *)
(* measurement it was asked for, the other bus user gives the bus back,    *)
(* and the driver's thread, which keeps trying the bus lock, gets it when  *)
(* the bus is free again and again.                                        *)
(***************************************************************************)
InCall ==
    \/ Ctor_ReadChipId
    \/ Ctor_Buffer
    \/ Reset_Write
    \/ Reset_Sleep
    \/ Reset_Return
    \/ Temperature_Trigger
    \/ Temperature_Poll
    \/ Temperature_Sleep
    \/ Temperature_Read
    \/ Magnetic_Trigger
    \/ Magnetic_Poll
    \/ Magnetic_Sleep
    \/ Magnetic_Enter
    \/ Magnetic_WriteAddress
    \/ Magnetic_ReadInto
    \/ Magnetic_Exit
    \/ DataRate_Set
    \/ PerformanceMode_Set
    \/ OperationMode_Set

Fairness ==
    /\ WF_vars(DeviceMagneticDone)
    /\ WF_vars(DeviceTemperatureDone)
    /\ WF_vars(OtherRelease)
    /\ SF_vars(InCall)

SpecFair == Init /\ [][Next]_vars /\ Fairness

(***************************************************************************)
(* The conversions alone, on a wide set of register contents: the raw      *)
(* temperature byte over all its values, the output block over all         *)
(* combinations of AxisSamples.                                            *)
(***************************************************************************)
\* <<high byte, mid byte, low-nibble byte>> of one axis: mid-scale, mid-scale
\* + 160, the two ends of the range, a low nibble that is not 0, mid-scale + 5,
\* and three different bytes
AxisSamples == { <<128, 0, 0>>, <<128, 10, 0>>, <<0, 0, 0>>, <<255, 255, 255>>,
                 <<128, 0, 31>>, <<128, 0, 80>>, <<18, 52, 86>> }

BlockOf(x, y, z) == <<x[1], x[2], y[1], y[2], z[1], z[2], x[3], y[3], z[3]>>

ConvBlocks == { BlockOf(x, y, z) : x \in AxisSamples, y \in AxisSamples, z \in AxisSamples }

InitConv ==
    /\ \/ dev \in [id : {MMC5603_CHIP_ID}, status : {128}, ctrl0 : {0},
                   out : {ZeroBlock}, temp : Byte]
       \/ dev \in [id : {MMC5603_CHIP_ID}, status : {64}, ctrl0 : {32},
                   out : ConvBlocks, temp : {0}]
    /\ pc = "apply"
    /\ call = "none"
    /\ buffer = ZeroBlock
    /\ outcome = "none"
    /\ result = <<>>
    /\ log = <<>>
    /\ polls = 0
    /\ clock = 0
    /\ busOwner = "none"
    /\ other = "idle"
    /\ intruded = FALSE
    /\ magHist = <<>>

\* lines 115-118 on the byte of the temperature register
Apply_temperature ==
    /\ pc = "apply"
    /\ dev.status = 128
    /\ call' = "temperature"
    /\ result' = <<TemperatureConvert(DevRead(dev, MMC5603_OUT_TEMP))>>
    /\ pc' = "applied"
    /\ UNCHANGED <<dev, buffer, outcome, log, polls, clock, busOwner, other,
                   intruded, magHist>>

\* lines 131-144 on the nine bytes from the X output register on
Apply_magnetic ==
    /\ pc = "apply"
    /\ dev.status = 64
    /\ call' = "magnetic"
    /\ buffer' = DevReadBlock(dev, MMC5603_OUT_X_L, Len(buffer))
    /\ result' = MagneticDecode(buffer')
    /\ pc' = "applied"
    /\ UNCHANGED <<dev, outcome, log, polls, clock, busOwner, other, intruded, magHist>>

NextConv == Apply_temperature \/ Apply_magnetic

SpecConv == InitConv /\ [][NextConv]_vars

(***************************************************************************)
(* Properties.                                                             *)
(***************************************************************************)
Measuring == call \in {"temperature", "magnetic"}
OwnBit == IF call = "temperature" THEN 7 ELSE 6
IsStatusRead(e) == e.op = "read" /\ e.reg = 24
IsDataAccess(e) == (e.op = "read" /\ e.reg = 9) \/ e.op \in {"xfer_write", "xfer_read"}
AllOk == \A i \in 1..Len(log) : log[i].ok
Returned(name) == call = name /\ pc = "idle" /\ outcome = "ok"

\* C1: construction first reads register 0x39; when the byte read is not 0x10
\* it fails with DeviceNotFoundError, and when it is 0x10 (and the transport
\* does not fail) it succeeds; DeviceNotFoundError is raised in no other case.
C1_ChipIdDecidesConstruction ==
    (call = "ctor" /\ pc \in {"idle", "dead"}) =>
        /\ Len(log) >= 1
        /\ log[1].op = "read" /\ log[1].reg = 57
        /\ log[1].ok => log[1].val = dev.id
        /\ (log[1].ok /\ log[1].val # 16) =>
               (pc = "dead" /\ outcome = "DeviceNotFoundError" /\ Len(log) = 1)
        /\ (AllOk /\ log[1].val = 16) => (pc = "idle" /\ outcome = "ok")
        /\ outcome = "DeviceNotFoundError" => (log[1].ok /\ log[1].val # 16)

C1_Witness ==
    call = "ctor" /\ pc = "dead" /\ outcome = "DeviceNotFoundError" /\ dev.id = 17

\* C4: in a measurement call every access to the result registers comes
\* after a status read, later than the trigger write, that showed the call's
\* own done bit set (bit 7 for temperature, bit 6 for magnetic), and the call
\* is past its poll loop only when its latest status read showed that bit.
C4_ResultReadOnlyAfterOwnDoneBit ==
    Measuring =>
        /\ \A i \in 1..Len(log) : IsDataAccess(log[i]) =>
             /\ log[1].op = "write" /\ log[1].reg = 27 /\ log[1].ok
             /\ \E j \in 2..(i - 1) :
                  /\ IsStatusRead(log[j]) /\ log[j].ok
                  /\ Bit(log[j].val, OwnBit) = 1
        /\ pc \in {"t_read", "m_enter"} =>
             /\ IsStatusRead(log[Len(log)])
             /\ Bit(log[Len(log)].val, OwnBit) = 1

\* a temperature call that went on polling while only the magnetic done bit read set
C4_Witness ==
    /\ call = "temperature" /\ pc = "t_read"
    /\ Len(log) >= 3
    /\ log[2].val = 64

\* C5: a measurement call that returns made its trigger write, then K >= 1
\* status polls of which only the last read the done bit set, then read the
\* result; it made no register write after the trigger write.
C5_ReturnsAtFirstDonePoll ==
    (Measuring /\ pc = "idle" /\ outcome = "ok") =>
        /\ polls >= 1
        /\ log[1].op = "write"
        /\ \A i \in 2..Len(log) : log[i].op # "write"
        /\ \A i \in 1..Len(log) : IsStatusRead(log[i]) <=> i \in 2..(polls + 1)
        /\ \A i \in 2..(polls + 1) : (Bit(log[i].val, OwnBit) = 1) <=> (i = polls + 1)
        /\ Len(log) = polls + (IF call = "temperature" THEN 2 ELSE 3)
        /\ \A i \in (polls + 2)..Len(log) : IsDataAccess(log[i])

\* returned at the second poll, the first having read the bit clear
C5_Witness ==
    /\ Returned("magnetic") /\ polls = 2
    /\ Bit(log[2].val, 6) = 0 /\ Bit(log[3].val, 6) = 1

Polling == pc \in {"t_poll", "t_sleep", "m_poll", "m_sleep"}

\* C6: a measurement call leaves its poll loop only from a poll, and then
\* either to the result read, the device's status showing the call's done bit,
\* or with the transport's error; a poll that reads the bit clear is followed
\* by the sleep and the sleep by the next poll, however many polls were made.
\* When the device finishes its measurements, a measurement call in progress
\* ends.
C6_PollsUntilDone ==
    /\ [][ /\ (Polling /\ ~Polling') =>
               /\ pc \in {"t_poll", "m_poll"}
               /\ \/ /\ pc' \in {"t_read", "m_enter"}
                     /\ Bit(dev.status, OwnBit) = 1
                  \/ /\ pc' = "idle"
                     /\ outcome' = "BusTransportError"
           /\ (pc \in {"t_poll", "m_poll"} /\ Bit(dev.status, OwnBit) = 0 /\ pc' # pc) =>
               (Polling' \/ outcome' = "BusTransportError")
         ]_vars
    /\ (Measuring /\ pc # "idle") ~> (pc = "idle")

\* still polling after MaxPolls polls, the device not done
C6_Witness ==
    /\ call = "magnetic" /\ pc = "m_sleep" /\ polls = MaxPolls
    /\ Bit(dev.status, 6) = 0 /\ Bit(dev.ctrl0, 0) = 1

\* C7: reset writes 0x80 to register 0x1C before any delay, and returns only
\* when at least 20 ms have been slept since that write.
C7_ResetWritesThenWaits ==
    /\ pc = "reset_write" => clock = 0
    /\ pc = "reset_sleep" =>
         (log[Len(log)] = Entry("write", 28, 128, TRUE) /\ clock = 0)
    /\ (pc \in {"reset_return", "ctor_buffer"} \/ Returned("reset") \/ Returned("ctor")) =>
         (log[Len(log)] = Entry("write", 28, 128, TRUE) /\ clock >= 20)

C7_Witness == Returned("reset") /\ clock = 20 /\ Len(log) = 1

\* C8: two magnetic calls in a row that found the same bytes in the device's nine
\* output registers returned the same triple.
C8_SameBytesSameTriple ==
    (/\ Len(magHist) = 2
     /\ magHist[1].res # <<>> /\ magHist[2].res # <<>>
     /\ magHist[1].out = magHist[2].out) => magHist[1].res = magHist[2].res

\* twice the same bytes, whose first is not the register address
C8_Witness ==
    /\ Returned("magnetic")
    /\ Len(magHist) = 2
    /\ magHist[1].res # <<>> /\ magHist[2].res # <<>>
    /\ magHist[1].out = magHist[2].out
    /\ magHist[2].out[1] = 18
    /\ result = magHist[2].res

\* C9: a bus operation that fails is the last bus operation of its call, and
\* the call has ended with the transport's error and without a reading; the
\* transport's error is raised in no other case.
C9_TransportErrorEndsCall ==
    /\ \A i \in 1..Len(log) : ~log[i].ok =>
         /\ i = Len(log)
         /\ pc \in {"idle", "dead"}
         /\ outcome = "BusTransportError"
         /\ result = <<>>
    /\ outcome = "BusTransportError" => (Len(log) >= 1 /\ ~log[Len(log)].ok)

C9_Witness ==
    /\ call = "temperature" /\ pc = "idle" /\ outcome = "BusTransportError"
    /\ Len(log) = 3 /\ ~log[3].ok /\ log[3].reg = 24

\* C10: from the address write to the end of the read-back the driver holds
\* the bus lock and no operation of the other bus user falls between the two;
\* the transaction writes 1 byte and reads 9; outside the transaction,
\* however it ended, the driver does not hold the lock.
C10_TransactionIsExclusive ==
    /\ pc \in {"m_write", "m_readinto", "m_exit"} => busOwner = "driver"
    /\ pc \notin {"m_write", "m_readinto", "m_exit"} => busOwner # "driver"
    /\ ~intruded
    /\ \A i \in 1..Len(log) : log[i].op = "xfer_read" =>
         /\ log[i - 1].op = "xfer_write" /\ log[i - 1].ok /\ log[i - 1].val = 1
         /\ log[i].ok => log[i].val = 9

\* the read-back failed, and the lock is free again with the other user idle
C10_Witness ==
    /\ call = "magnetic" /\ pc = "idle" /\ outcome = "BusTransportError"
    /\ log[Len(log)].op = "xfer_read"
    /\ busOwner = "none" /\ other = "idle"

(***************************************************************************)
(* Comparing a float v with a rational n / k (k > 0, n an integer): v is   *)
(* kept in units of 2^-60, so k * v = n is k * v.mag = |n| * 2^60 with the *)
(* signs agreeing.                                                         *)
(***************************************************************************)
UnitsOfInt(n) == ShiftLeft[BitsOfNat[Abs(n)], 60]

TimesEquals(v, k, n) ==
    /\ MulSmall[v.mag, k, 0] = UnitsOfInt(n)
    /\ (n # 0 => v.neg = (n < 0))

\* |k * v - n|, in units of 2^-60
TimesError(v, k, n) ==
    LET a == MulSmall[v.mag, k, 0]
        b == UnitsOfInt(n)
    IN  IF v.neg = (n < 0) \/ a = <<>> \/ b = <<>>
        THEN (IF CmpBits[a, b] >= 0 THEN SubBits[a, b] ELSE SubBits[b, a])
        ELSE AddBits[a, b, 0]

\* |k * v - n| < k * 2^e, that is |v - n / k| < 2^e, for -60 <= e
TimesWithin(v, k, n, e) ==
    CmpBits[TimesError(v, k, n), ShiftLeft[BitsOfNat[k], 60 + e]] < 0

Applied(name) == pc = "applied" /\ call = name

\* the packed value of axis i (0, 1, 2) of a block of 9 bytes, less 2^19
Centered(b, i) == b[2 * i + 1] * 4096 + b[2 * i + 2] * 16 + (b[7 + i] \div 16) - 524288

\* C2 as stated: on every axis 160 * value = packed20 - 524288.
C2_Original ==
    Applied("magnetic") =>
        \A i \in 0..2 : TimesEquals(result[i + 1], 160, Centered(dev.out, i))

\* C2, amended: magnetic returns the triple (X, Y, Z) in which, with
\* c = packed20 - 524288 of the axis, 160 * value = c holds exactly when c is
\* a multiple of 5 and value differs from c / 160 by less than 2^-41 always;
\* the mid-scale block gives (0, 0, 0), and 2^19 + 160 gives exactly 1.
C2_DecodeWithinRounding ==
    Applied("magnetic") =>
        /\ Len(result) = 3
        /\ \A i \in 0..2 :
             LET c == Centered(dev.out, i)
             IN  /\ TimesEquals(result[i + 1], 160, c) <=> (c % 5 = 0)
                 /\ TimesWithin(result[i + 1], 160, c, -41)
                 /\ c = 0 => result[i + 1] = [neg |-> FALSE, mag |-> <<>>]
                 /\ c = 160 => TimesEquals(result[i + 1], 1, 1)

\* X at 2^19 + 160 and the other axes at mid-scale: (1, 0, 0)
C2_Witness ==
    /\ Applied("magnetic")
    /\ dev.out = <<128, 10, 128, 0, 128, 0, 0, 0, 0>>
    /\ TimesEquals(result[1], 1, 1)
    /\ TimesEquals(result[2], 1, 0)
    /\ TimesEquals(result[3], 1, 0)

\* C3 as stated: 10 * celsius = 8 * raw - 750 for every raw byte.
C3_Original ==
    Applied("temperature") => TimesEquals(result[1], 10, 8 * dev.temp - 750)

\* C3, amended: 10 * celsius = 8 * raw - 750 holds exactly when raw is a
\* multiple of 5 (so raw 0 gives -75 and raw 255 gives 129), and celsius
\* differs from 0.8 * raw - 75 by less than 2^-45 for every raw byte.
C3_AffineWithinRounding ==
    Applied("temperature") =>
        /\ Len(result) = 1
        /\ TimesEquals(result[1], 10, 8 * dev.temp - 750) <=> (dev.temp % 5 = 0)
        /\ TimesWithin(result[1], 10, 8 * dev.temp - 750, -45)
        /\ dev.temp = 0 => TimesEquals(result[1], 1, -75)
        /\ dev.temp = 255 => TimesEquals(result[1], 1, 129)

C3_Witness == Applied("temperature") /\ dev.temp = 255 /\ TimesEquals(result[1], 1, 129)

IsRegisterWrite(e) == e.op = "write"

\* C11: construction reads the product ID before any write; when the ID read
\* is not 0x10 it has ended with that one read, no register write, no delay
\* and no buffer; when it returns it has read the ID 0x10, then written 0x80
\* to control register 1 exactly once, then waited at least 20 ms, and the
\* driver has a buffer of 9 bytes, which it did not have before.
C11_ConstructionOrder ==
    call = "ctor" =>
        /\ \A i \in 1..Len(log) : IsRegisterWrite(log[i]) =>
             (i = 2 /\ log[1] = Entry("read", 57, 16, TRUE) /\ log[i].reg = 28)
        /\ (pc = "dead" /\ outcome = "DeviceNotFoundError") =>
             /\ Len(log) = 1 /\ log[1].op = "read" /\ log[1].val # 16
             /\ clock = 0
             /\ buffer = <<>>
        /\ pc # "idle" => buffer = <<>>
        /\ (pc = "idle" /\ outcome = "ok") =>
             /\ log = <<Entry("read", 57, 16, TRUE), Entry("write", 28, 128, TRUE)>>
             /\ clock >= 20
             /\ Len(buffer) = 9

C11_Witness ==
    /\ call = "ctor" /\ pc = "idle" /\ outcome = "ok"
    /\ Len(log) = 2 /\ Len(buffer) = 9 /\ dev.id = 16


\* C12: a measurement call that is past its trigger step made a write of
\* control register 0 as its first bus operation, with 0x02 in temperature
\* and 0x21 in magnetic, and made no other register write: control register
\* 1, control register 2 and the status register are not written.
C12_OneTriggerWrite ==
    Measuring =>
        /\ pc \notin {"t_trigger", "m_trigger"} => Len(log) >= 1
        /\ Len(log) >= 1 =>
             /\ IsRegisterWrite(log[1]) /\ log[1].reg = MMC5603_CTRL_REG0
             /\ log[1].ok => log[1].val = (IF call = "temperature" THEN 2 ELSE 33)
        /\ \A i \in 2..Len(log) :
             /\ ~IsRegisterWrite(log[i])
             /\ log[i].op = "read" =>
                  log[i].reg \notin {MMC5603_CTRL_REG0, MMC5603_CTRL_REG1, MMC5603_CTRL_REG2}
        /\ \A i \in 1..Len(log) : IsRegisterWrite(log[i]) =>
             log[i].reg \notin {MMC5603_CTRL_REG1, MMC5603_CTRL_REG2, MMC5603_STATUS_REG}

\* a second magnetic call in a row, the status still showing the first one's done bit
\* when it began, polling after its own trigger write
C12_Witness ==
    /\ call = "magnetic" /\ pc = "m_sleep"
    /\ Len(magHist) = 1
    /\ log[1] = Entry("write", 27, 33, TRUE)
    /\ Len(log) = 2


\* C13: whatever calls came before, the transaction of magnetic sends the
\* address 0x00: byte 0 of the buffer is 0x00 when the write is made, the
\* write is of 1 byte, the read is of 9 bytes from that address, and after it
\* the buffer's positions 0..8 hold the device's nine output bytes.
C13_AddressByteIsZero ==
    /\ pc = "m_write" => (Len(buffer) = 9 /\ buffer[1] = MMC5603_OUT_X_L)
    /\ \A i \in 1..Len(log) :
         /\ log[i].op = "xfer_write" =>
              (log[i].reg = MMC5603_OUT_X_L /\ (log[i].ok => log[i].val = 1))
         /\ log[i].op = "xfer_read" =>
              (log[i].reg = MMC5603_OUT_X_L /\ (log[i].ok => log[i].val = 9))
    /\ pc = "m_exit" =>
         /\ Len(buffer) = 9
         /\ \A k \in 0..8 : buffer[k + 1] = DevRead(dev, k)

\* the address about to be sent by a magnetic call that follows one whose
\* read-back left 0x12 in byte 0 and 0x34 in byte 1
C13_Witness ==
    /\ call = "magnetic" /\ pc = "m_write"
    /\ Len(magHist) = 1 /\ magHist[1].out[1] = 18
    /\ buffer[1] = 0 /\ buffer[2] = 52


\* the bits set in a byte
BitsSet(v) == {n \in 0..7 : Bit(v, n) = 1}

\* C14 as stated: the value a measurement call writes to control register 0
\* is made of two bits, the call's own trigger bit and an auto set/reset bit
\* that is set in both trigger values, 0x02 and 0x21.
C14_Original ==
    (Measuring /\ Len(log) >= 1 /\ log[1].ok) =>
        \E sr \in BitsSet(TriggerTemperature) \cap BitsSet(TriggerMagnetic) :
            \E tm \in (0..7) \ {sr} : BitsSet(log[1].val) = {tm, sr}


\* the block with the low 4 bits of bytes 6, 7 and 8 cleared
ClearLowNibbles(b) == [k \in 1..9 |-> IF k >= 7 THEN (b[k] \div 16) * 16 ELSE b[k]]

\* 160 * |v| against lo (v negative) or hi (v not negative), in units of 2^-60
ScaledMagnitude(v) == MulSmall[v.mag, 160, 0]
RangeEnd(v) == UnitsOfInt(IF v.neg THEN 524288 ELSE 524287)

\* -3276.8 <= v <= 3276.79375, that is -524288 <= 160 * v <= 524287
InRangeExactly(v) == CmpBits[ScaledMagnitude(v), RangeEnd(v)] <= 0

\* -3276.8 - 2^-41 < v < 3276.79375 + 2^-41
InRangeWithinRounding(v) ==
    CmpBits[ScaledMagnitude(v), AddBits[RangeEnd(v), ShiftLeft[BitsOfNat[160], 19], 0]] < 0

\* the three fields of an axis do not overlap: the value packed with | is the
\* sum of the fields, and it is in 0..2^20-1 and, less 2^19, in -2^19..2^19-1
FieldsInRange(b, i) ==
    /\ AxisPacked(b[2 * i + 1], b[2 * i + 2], b[7 + i]) = Centered(b, i) + 524288
    /\ AxisPacked(b[2 * i + 1], b[2 * i + 2], b[7 + i]) \in 0..1048575
    /\ AxisCentered(b[2 * i + 1], b[2 * i + 2], b[7 + i]) = Centered(b, i)
    /\ AxisCentered(b[2 * i + 1], b[2 * i + 2], b[7 + i]) \in -524288..524287

\* C15 as stated: the fields do not overlap, the packed and the signed value
\* are in range, each returned axis is in [-3276.8, 3276.79375], and the low
\* 4 bits of bytes 6, 7 and 8 do not change the result.
C15_Original ==
    Applied("magnetic") =>
        /\ \A i \in 0..2 : FieldsInRange(dev.out, i) /\ InRangeExactly(result[i + 1])
        /\ MagneticDecode(ClearLowNibbles(dev.out)) = result

\* C15, amended: the fields do not overlap, the packed value is in
\* 0..2^20-1 and the signed value in -2^19..2^19-1, each returned axis is
\* within 2^-41 of the interval [-3276.8, 3276.79375], which the two ends of
\* the range leave, and the low 4 bits of bytes 6, 7 and 8 do not change the
\* result.
C15_RangeWithinRounding ==
    Applied("magnetic") =>
        /\ \A i \in 0..2 :
             /\ FieldsInRange(dev.out, i)
             /\ InRangeWithinRounding(result[i + 1])
             /\ Centered(dev.out, i) \in {-524288, 524287} => ~InRangeExactly(result[i + 1])
        /\ MagneticDecode(ClearLowNibbles(dev.out)) = result

\* X at the top of the range with all four low bits of byte 6 set: above 3276.79375
C15_Witness ==
    /\ Applied("magnetic")
    /\ dev.out[1] = 255 /\ dev.out[2] = 255 /\ dev.out[7] = 255
    /\ ~result[1].neg
    /\ ~InRangeExactly(result[1])
    /\ InRangeWithinRounding(result[1])


Setters == {"data_rate", "performance_mode", "operation_mode"}
SetterSteps == {"dr_set", "pm_set", "om_set"}

=============================================================================
